---- MODULE Spec2Model ----
(***************************************************************************)
(* Model of the ArgoCD Slack bot: the mention handler, the interactive     *)
(* callback handler, the authorization gate and the deployment-controller  *)
(* client (src/main.py, src/config.py, src/argocd_api.py,                  *)
(* src/slack_api.py).                                                      *)
(*                                                                         *)
(* Strings that the code inspects character by character (command text,    *)
(* application names, revision ids) are sequences of atoms.  An atom is a  *)
(* single character, or a whole keyword of the command grammar, or the     *)
(* leading "<@BOT>" mention token.  Two atoms that follow each other are   *)
(* adjacent in the string: <<"sync", "a">> is the word "synca".            *)
(***************************************************************************)
EXTENDS Integers, Sequences, FiniteSets, TLC

VARIABLES
    ALLOWED_USERS,                  \* Config.ALLOWED_USERS, fixed at startup
    AUTO_DISABLE_SYNC_ON_ROLLBACK,  \* Config.AUTO_DISABLE_SYNC_ON_ROLLBACK
    ROLLBACK_TABLE_FIELDS,          \* Config.ROLLBACK_TABLE_FIELDS is not empty
    prompt,     \* the confirmation prompt of the conversation, as Slack holds it
    handler,    \* which entry point handled the last request ("idle" if none)
    input,      \* the event, payload or arguments it was given
    slack,      \* chat_postMessage calls it made (messages, in order)
    url,        \* posts it made to the payload's response_url (in order)
    argo,       \* requests it made to the deployment controller (in order)
    status,     \* HTTP status of the handler's response (0: not an HTTP handler)
    result,     \* return value of a directly called function ("" if none)
    calls,      \* calls to rollback_application and disable_auto_sync made inside a request
    controller, \* the application as the controller holds it, once observed
    clicked,    \* per callback received for the prompt: did it call the controller
    now,        \* datetime.now(), to the second
    tmp,        \* the files of /tmp: a set of [name, content]
    threads     \* the request threads inside _logs_table: position and locals

\* the state of main and argocd_api requests, and the state of _logs_table
requestVars == <<ALLOWED_USERS, AUTO_DISABLE_SYNC_ON_ROLLBACK, ROLLBACK_TABLE_FIELDS, prompt, handler, input,
                 slack, url, argo, status, result, calls, controller, clicked>>
logsVars == <<now, tmp, threads>>
vars == <<ALLOWED_USERS, AUTO_DISABLE_SYNC_ON_ROLLBACK, ROLLBACK_TABLE_FIELDS, prompt, handler, input,
          slack, url, argo, status, result, calls, controller, clicked,
          now, tmp, threads>>

----------------------------------------------------------------------------
(* Bounds and input alphabets *)

\* longest application name / revision id typed in a command, in characters
MaxTokLen == 2
\* longest revision id passed to rollback_application called on its own
MaxRevLen == 3
\* most argument words after the first word of a command
MaxArgs == 2
MaxClock == 2
\* most callbacks received for one prompt
MaxClicks == 2
\* most entries in the deployment history of an application
MaxHistory == 1

None == "None"                       \* Python's None for string-valued fields
UserIds == {"U1", "U2"}
Digits == {"1"}
Chars == {"a", "1"}                  \* characters of typed tokens
SignChars == {"-", "_"}              \* further characters int() gives a meaning
SP == " "
MENTION == "<@BOT>"
Keywords == {"help", "rollback_revisions", "sync", "logs", "rollback", "list_apps"}
CallbackKinds == {"list_app_confirmation", "rollback_revisions", "sync_app",
                  "rollback_app", "logs_app"}

SeqsUpTo(S, n) == UNION {[1..k -> S] : k \in 0..n}
Tokens == SeqsUpTo(Chars, MaxTokLen) \ {<<>>}
RevStrings == SeqsUpTo(Chars \cup SignChars, MaxRevLen)

----------------------------------------------------------------------------
(* Python string helpers *)

\* str.isdigit(): non-empty and every character a digit
IsDigit(s) == Len(s) > 0 /\ \A i \in 1..Len(s) : s[i] \in Digits

\* str.strip(): drop leading and trailing whitespace
RECURSIVE LStrip(_)
LStrip(s) == IF s # <<>> /\ Head(s) = SP THEN LStrip(Tail(s)) ELSE s
RECURSIVE RStrip(_)
RStrip(s) == IF s # <<>> /\ s[Len(s)] = SP THEN RStrip(SubSeq(s, 1, Len(s) - 1)) ELSE s
Strip(s) == RStrip(LStrip(s))

\* the whitespace-separated words of a string, in order
RECURSIVE Words(_)
Words(s) ==
    LET t == LStrip(s) IN
    IF t = <<>> THEN <<>>
    ELSE LET n == CHOOSE k \in 1..Len(t) :
                      /\ \A i \in 1..k : t[i] # SP
                      /\ (k = Len(t) \/ t[k + 1] = SP)
         IN <<SubSeq(t, 1, n)>> \o Words(SubSeq(t, n + 1, Len(t)))

\* re.sub(r"^<.+>\s*", "", text): greedy, from a leading "<" through the last ">"
EndsAngle(s) == {i \in 1..Len(s) : s[i] = MENTION}
StripMention(s) ==
    IF s # <<>> /\ Head(s) = MENTION /\ EndsAngle(s) # {}
    THEN LET last == CHOOSE i \in EndsAngle(s) : \A j \in EndsAngle(s) : j <= i
         IN LStrip(SubSeq(s, last + 1, Len(s)))
    ELSE s

----------------------------------------------------------------------------
(* Config *)

\* faulty variant: the allow-list is never consulted
IsUserAuthorizedOpen(user_id) == TRUE
\* Config.is_user_authorized
is_user_authorized(user_id) ==
    IF ALLOWED_USERS = {} THEN TRUE ELSE user_id \in ALLOWED_USERS

----------------------------------------------------------------------------
(* Messages the bot sends with chat_postMessage.  A message text is a      *)
(* sequence of parts: the bot mention, plain text, and `inline code`.      *)

BotMention == [user |-> "BOT"]
Txt(s) == [text |-> <<s>>]
Code(w) == [text |-> w, code |-> TRUE]

\* _help_reply
HelpMessage(user) == [kind |-> "help", callback_id |-> None, to |-> user, text |-> <<>>]
\* _send_deny_message
DenyMessage(user) == [kind |-> "deny", callback_id |-> None, to |-> user, text |-> <<>>]
\* _send_confirmation_message: a text and one attachment with a yes and a no button
ConfirmationMessage(user, callback_id, message_text) ==
    [kind |-> "prompt", callback_id |-> callback_id, to |-> user, text |-> message_text]

----------------------------------------------------------------------------
(* handle_mentions: the command grammar *)

\* re.match(r"^\s*KW\s*$", text)
MatchBare(text, kw) == Words(text) = << <<kw>> >>
\* faulty variant: the pattern not anchored at the end of the text
MatchArgsUnanchored(text, kw, n) ==
    LET w == Words(text) IN
    IF Len(w) >= n + 1 /\ w[1] = <<kw>> THEN SubSeq(w, 2, n + 1) ELSE <<>>
\* re.match(r"^\s*KW\s+(\S+)$", text): the groups, or <<>> when there is no match
MatchArgs(text, kw, n) ==
    LET w == Words(text) IN
    IF /\ Len(w) = n + 1
       /\ w[1] = <<kw>>
       /\ text[Len(text)] # SP
    THEN Tail(w) ELSE <<>>

NoPrompt == [kind |-> "none"]

\* the text of the rollback prompt for the groups g of the rollback rule
RollbackPrompt(g) ==
    <<BotMention, Txt(", To rollback "), Code(g[1]), Txt(" deployment to revision "),
      Code(g[2]), Txt(", reply yes to proceed, no to cancel.")>>

\* the grammar, first match wins: the prompt sent for `text`, if any
ParseCommand(user, text) ==
    LET rr == MatchArgs(text, "rollback_revisions", 1)
        sy == MatchArgs(text, "sync", 1)
        lg == MatchArgs(text, "logs", 1)
        rb == MatchArgs(text, "rollback", 2)
    IN
    IF rr # <<>> THEN
        <<ConfirmationMessage(user, "rollback_revisions",
            <<BotMention, Txt(", To list all available revisions of "), Code(rr[1]),
              Txt(", reply yes to proceed, no to cancel.")>>)>>
    ELSE IF sy # <<>> THEN
        <<ConfirmationMessage(user, "sync_app",
            <<BotMention, Txt(", To sync "), Code(sy[1]),
              Txt(" deployment with latest release, reply yes to proceed, no to cancel.")>>)>>
    ELSE IF lg # <<>> THEN
        <<ConfirmationMessage(user, "logs_app",
            <<BotMention, Txt(", To download the logs of "), Code(lg[1]),
              Txt(", reply yes to proceed, no to cancel.")>>)>>
    ELSE IF rb # <<>> THEN
        <<ConfirmationMessage(user, "rollback_app", RollbackPrompt(rb))>>
    ELSE IF MatchBare(text, "list_apps") THEN
        <<ConfirmationMessage(user, "list_app_confirmation",
            <<BotMention, Txt(", To list running apps, reply yes to proceed, no to cancel.")>>)>>
    ELSE <<>>

\* the stripped command text of an event
CommandText(event) == Strip(StripMention(event.text))

\* whether the event passes the payload checks at the top of handle_mentions
EventAccepted(event) ==
    /\ ~event.subtype
    /\ event.channel # None
    /\ event.user # None
    /\ event.authorizations # <<>>
    /\ event.authorizations[1] # None

\* faulty variant: the gate applied to recognized commands only
MentionGateAfterParse(event) ==
    LET text == CommandText(event) IN
    IF ~EventAccepted(event) THEN <<>>
    ELSE IF MatchBare(text, "help") THEN <<HelpMessage(event.user)>>
    ELSE IF ParseCommand(event.user, text) = <<>> THEN <<>>
    ELSE IF ~is_user_authorized(event.user) THEN <<DenyMessage(event.user)>>
    ELSE ParseCommand(event.user, text)
\* faulty variant: the gate applied before the help command is looked for
MentionGateHelp(event) ==
    LET text == CommandText(event) IN
    IF ~EventAccepted(event) THEN <<>>
    ELSE IF ~is_user_authorized(event.user) THEN <<DenyMessage(event.user)>>
    ELSE IF MatchBare(text, "help") THEN <<HelpMessage(event.user)>>
    ELSE ParseCommand(event.user, text)
\* faulty variant: no gate at the mention entry point
MentionNoGate(event) ==
    LET text == CommandText(event) IN
    IF ~EventAccepted(event) THEN <<>>
    ELSE IF MatchBare(text, "help") THEN <<HelpMessage(event.user)>>
    ELSE ParseCommand(event.user, text)
\* the messages handle_mentions sends for an event
MentionMessages(event) ==
    LET text == CommandText(event) IN
    IF ~EventAccepted(event) THEN <<>>
    ELSE IF MatchBare(text, "help") THEN <<HelpMessage(event.user)>>
    ELSE IF ~is_user_authorized(event.user) THEN <<DenyMessage(event.user)>>
    ELSE ParseCommand(event.user, text)

----------------------------------------------------------------------------
(* The prompt as the interactive callback carries it back:                 *)
(* original_message.blocks, one rich-text block holding one section whose  *)
(* elements are the parts of the text; an inline-code part carries a       *)
(* "style" key, the other parts do not.                                    *)

RenderPart(part) ==
    IF "user" \in DOMAIN part THEN [type |-> "user", user_id |-> part.user]
    ELSE IF "code" \in DOMAIN part
         THEN [type |-> "text", text |-> part.text, style |-> [code |-> TRUE]]
         ELSE [type |-> "text", text |-> part.text]
SlackRender(message_text) ==
    << [type |-> "rich_text",
        elements |-> << [type |-> "rich_text_section",
                         elements |-> [i \in 1..Len(message_text) |->
                                          RenderPart(message_text[i])]] >>] >>

\* the leaf elements in the order the nested loops of the extractors visit them
RECURSIVE Flatten(_)
Flatten(ss) == IF ss = <<>> THEN <<>> ELSE Head(ss) \o Flatten(Tail(ss))
Elements(x) == IF "elements" \in DOMAIN x THEN x.elements ELSE <<>>
SubElements(blocks) ==
    Flatten([i \in 1..Len(Flatten([b \in 1..Len(blocks) |-> Elements(blocks[b])])) |->
               Elements(Flatten([b \in 1..Len(blocks) |-> Elements(blocks[b])])[i])])
ElementText(e) == IF "text" \in DOMAIN e THEN e.text ELSE <<>>

\* faulty variant: a failed extraction defaulted to some application
DefaultToken == [found |-> TRUE, text |-> <<"a">>]
NoToken == [found |-> FALSE]
Found(w) == [found |-> TRUE, text |-> w]

\* first index of a styled leaf whose text satisfies the class test
FirstStyled(blocks, wantDigit) ==
    LET subs == SubElements(blocks)
        hits == {i \in 1..Len(subs) :
                    /\ "style" \in DOMAIN subs[i]
                    /\ ElementText(subs[i]) # <<>>
                    /\ IsDigit(ElementText(subs[i])) = wantDigit}
    IN IF hits = {} THEN NoToken
       ELSE Found(ElementText(subs[CHOOSE i \in hits : \A j \in hits : i <= j]))

\* faulty variant: the first styled leaf, whatever its class
ExtractFirstStyledAny(blocks) ==
    LET subs == SubElements(blocks)
        hits == {i \in 1..Len(subs) :
                    "style" \in DOMAIN subs[i] /\ ElementText(subs[i]) # <<>>}
    IN IF hits = {} THEN NoToken
       ELSE Found(ElementText(subs[CHOOSE i \in hits : \A j \in hits : i <= j]))
\* _extract_app_name_from_message
extract_app_name_from_message(blocks) == FirstStyled(blocks, FALSE)
\* _extract_revision_id_from_message
extract_revision_id_from_message(blocks) == FirstStyled(blocks, TRUE)

----------------------------------------------------------------------------
(* Deployment-controller client (argocd_api).  The controller is the       *)
(* environment: each operation is the set of its possible outcomes, one    *)
(* per answer the controller can give.  An outcome is the value returned   *)
(* and the requests issued, each with the HTTP status it received          *)
(* (0: no response, a transport failure).                                  *)

NoPayload == [kind |-> "none"]
Request(method, op, app, payload, resp) ==
    [method |-> method, op |-> op, app |-> app, payload |-> payload, resp |-> resp]

\* _make_request: the response, or None on a transport failure or a 4xx/5xx
\* status (raise_for_status); a 204 comes back as a response that is not 200
MakeRequestStatuses == {0, 200, 204, 500}
\* faulty variant: any 2xx answer taken for a success
SucceededAny2xx(st) == st \in {200, 204}
Succeeded(st) == st = 200

\* int(revision_id): optional surrounding whitespace, an optional sign, then
\* digits, single underscores allowed between two digits
Unsigned(s) ==
    LET t == Strip(s) IN IF t # <<>> /\ Head(t) \in {"-", "+"} THEN Tail(t) ELSE t
\* faulty variant: no validation of the revision id
IntParsesAlways(s) == TRUE
IntParses(s) ==
    LET body == Unsigned(s) IN
    /\ body # <<>>
    /\ \A i \in 1..Len(body) : body[i] \in Digits \cup {"_"}
    /\ body[1] \in Digits /\ body[Len(body)] \in Digits
    /\ \A i \in 1..(Len(body) - 1) : ~(body[i] = "_" /\ body[i + 1] = "_")
DigitValue(c) == IF c = "1" THEN 1 ELSE 0
RECURSIVE Decimal(_)
Decimal(ds) ==
    IF ds = <<>> THEN 0
    ELSE 10 * Decimal(SubSeq(ds, 1, Len(ds) - 1)) + DigitValue(ds[Len(ds)])
IntValue(s) ==
    LET t == Strip(s)
        ds == SelectSeq(Unsigned(s), LAMBDA c : c \in Digits)
    IN IF t # <<>> /\ Head(t) = "-" THEN 0 - Decimal(ds) ELSE Decimal(ds)

\* sync_application
sync_application(app_name) ==
    {[ret |-> IF Succeeded(st) THEN "ok" ELSE "error",
      reqs |-> <<Request("POST", "sync", app_name, NoPayload, st)>>]
       : st \in MakeRequestStatuses}

\* list_application_by_name: the application object of a 200 answer.  The
\* object's syncPolicy is what disable_auto_sync reads.
\* spec.source stands for the fields of the spec outside syncPolicy; a key of
\* syncPolicy is "absent" or has a value.
Absent == "absent"
AppSpecs ==
    [source : {"repo 1", "repo 2"},
     automated : {Absent, "empty", "present"},
     retry : {Absent, "limit 2"},
     syncOptions : {Absent, "CreateNamespace=true"}]
NoApp == [found |-> FALSE]
\* response.json() raised: the body of a 200 answer is not JSON
Raises == "ValueError"
\* the same for an application object: there is none
NotJson == [found |-> FALSE, raises |-> TRUE]
\* nothing is known of the application: the controller may answer anything
Unobserved == [known |-> FALSE]
list_application_by_name(app_name) ==
    {[ret |-> NoApp, reqs |-> <<Request("GET", "application", app_name, NoPayload, st)>>]
       : st \in MakeRequestStatuses \ {200}}
    \cup
    {[ret |-> [found |-> TRUE, spec |-> sp],
      reqs |-> <<Request("GET", "application", app_name, NoPayload, 200)>>]
       : sp \in AppSpecs}
    \cup
    {[ret |-> NotJson, reqs |-> <<Request("GET", "application", app_name, NoPayload, 200)>>]}

\* a source, of the application or of an entry of its history: a dict with
\* repoURL (empty when the key is missing), path and helm.valueFiles, the empty
\* dict, or no "source" key at all
RepoA == <<"https", ":", "/", "/", "git", "/", "a">>
RepoB == <<"https", ":", "/", "/", "git", "/", "b">>
RepoUrls == {<<>>, RepoA, RepoB}
Sources ==
    [kind : {"dict"}, repoURL : RepoUrls, path : {"chart a", "chart b"},
     valueFiles : {"values a", "values b"}]
EmptyDict == [kind |-> "empty"]
NoSourceKey == [kind |-> "absent"]
\* the source of an application of AppSpecs
SourceOf(name) ==
    [kind |-> "dict", repoURL |-> IF name = "repo 1" THEN RepoA ELSE RepoB,
     path |-> "chart a", valueFiles |-> "values a"]

\* history_item: not supplied (None), or an entry with or without a source
NoHistoryItem == [supplied |-> FALSE]
HistoryItems ==
    {NoHistoryItem}
    \cup {[supplied |-> TRUE, source |-> src] : src \in Sources \cup {EmptyDict, NoSourceKey}}
RevisionHashes == {"h1", "h2"}

\* urllib.parse.quote(repo_url, safe=""): ":" and "/" are escaped
RECURSIVE Quote(_)
Quote(s) ==
    IF s = <<>> THEN <<>>
    ELSE (IF Head(s) = ":" THEN <<"%3A">>
          ELSE IF Head(s) = "/" THEN <<"%2F">>
          ELSE <<Head(s)>>) \o Quote(Tail(s))

\* faulty variant: the source of the history entry never used
ResolveSourceCurrent(app, history_item) == app.source
\* if history_item and history_item.get("source"): the entry's source when it
\* is supplied and not empty, else spec.get("source", {})
ResolveSource(app, history_item) ==
    IF history_item.supplied /\ history_item.source.kind = "dict"
    THEN history_item.source
    ELSE app.source

\* get_appdetails_for_revision: the Helm parameters of a revision, asked of
\* the repository endpoint with a POST that changes nothing; None when there is
\* no repository URL, when the answer is not 200 and when it does not decode
get_appdetails_for_revision(app, revision_id, revision_hash, history_item) ==
    LET source == ResolveSource(app, history_item)
        repo_url == IF source.kind = "dict" THEN source.repoURL ELSE <<>>
        payload == [kind |-> "appdetails", endpoint |-> Quote(repo_url),
                    repoURL |-> repo_url, path |-> source.path,
                    targetRevision |-> revision_hash,
                    valueFiles |-> source.valueFiles,
                    appName |-> app.name, versionId |-> revision_id]
    IN IF repo_url = <<>> THEN {[ret |-> None, reqs |-> <<>>]}
       ELSE {[ret |-> IF Succeeded(st) /\ decodes THEN "details" ELSE None,
              reqs |-> <<Request("POST", "appdetails", app.name, payload, st)>>]
               : st \in MakeRequestStatuses, decodes \in BOOLEAN}

\* status.history of an application: per entry its id and its revision hash,
\* empty when the entry has none
Histories == SeqsUpTo({[id |-> 1, revision |-> h] : h \in {"", "h1"}}, MaxHistory)

\* _available_rollback_table: one lookup for each entry of the history that
\* carries a revision hash, when additional fields are configured; the entry
\* itself is not passed on
RECURSIVE DetailLookups(_, _)
DetailLookups(app, history) ==
    IF history = <<>> THEN {<<>>}
    ELSE IF ROLLBACK_TABLE_FIELDS /\ Head(history).revision # ""
         THEN {o.reqs \o rest
                 : o \in get_appdetails_for_revision(app, Head(history).id,
                                                     Head(history).revision, NoHistoryItem),
                   rest \in DetailLookups(app, Tail(history))}
         ELSE DetailLookups(app, Tail(history))

\* get_sync_windows: the sync windows of a 200 answer, or None
get_sync_windows(app_name) ==
    {[ret |-> IF Succeeded(st) THEN "windows" ELSE None,
      reqs |-> <<Request("GET", "syncwindows", app_name, NoPayload, st)>>]
       : st \in MakeRequestStatuses}
    \cup
    {[ret |-> Raises, reqs |-> <<Request("GET", "syncwindows", app_name, NoPayload, 200)>>]}

\* faulty variant: the retry configuration lost
NewSyncPolicyWithoutRetry(spec) ==
    [automated |-> Absent, retry |-> Absent, syncOptions |-> spec.syncOptions]
\* the syncPolicy both write payloads of disable_auto_sync carry
NewSyncPolicy(spec) == [automated |-> Absent, retry |-> spec.retry,
                        syncOptions |-> spec.syncOptions]
\* patch_payload: {"spec": {"syncPolicy": {...}}}, the object kept when empty
PatchPayload(spec) == [kind |-> "patch", syncPolicy |-> NewSyncPolicy(spec),
                       hasSyncPolicy |-> TRUE]
\* put_payload: {"spec": full_spec}, syncPolicy popped when it would be empty
PutPayload(spec) ==
    [kind |-> "put", source |-> spec.source, syncPolicy |-> NewSyncPolicy(spec),
     hasSyncPolicy |-> (spec.retry # Absent \/ spec.syncOptions # Absent)]

\* requests.patch / requests.put / requests.post: any status, or an exception
RawStatuses == {0, 200, 500}

\* faulty variant: only a missing "automated" key counts as disabled
AutomatedOffStrict(spec) == spec.automated = "absent"
\* not sync_policy.get("automated"): the key is missing or its value is empty
AutomatedOff(spec) == spec.automated # "present"

\* disable_auto_sync; seen is what its read of the application returned.  The
\* exception of response.json() is a RequestException and is caught with the
\* others (except RequestException): False.
disable_auto_sync(app_name) ==
    UNION {
      IF ~got.ret.found THEN {[ret |-> FALSE, reqs |-> got.reqs, seen |-> got.ret]}
      ELSE IF AutomatedOff(got.ret.spec)
           THEN {[ret |-> TRUE, reqs |-> got.reqs, seen |-> got.ret]}
      ELSE UNION {
        LET patch == Request("PATCH", "application", app_name,
                             PatchPayload(got.ret.spec), pst)
        IN IF pst = 200
           THEN {[ret |-> TRUE, reqs |-> got.reqs \o <<patch>>, seen |-> got.ret]}
           ELSE IF pst = 0
           THEN {[ret |-> FALSE, reqs |-> got.reqs \o <<patch>>, seen |-> got.ret]}
           ELSE {[ret |-> (ust = 200),
                  reqs |-> got.reqs \o <<patch,
                             Request("PUT", "application", app_name,
                                     PutPayload(got.ret.spec), ust)>>,
                  seen |-> got.ret]
                   : ust \in RawStatuses}
        : pst \in RawStatuses}
      : got \in list_application_by_name(app_name)}

\* The controller between two calls: a write it answered with 200 replaced
\* the application's syncPolicy by the one of the payload; a write that got
\* no answer may or may not have been applied; a read shows the application
\* as it is held.
Writes(reqs) == SelectSeq(reqs, LAMBDA r : r.method \in {"PATCH", "PUT"})
Observed(spec, written) == [known |-> TRUE, spec |-> spec, written |-> written]
Applied(spec, payload) ==
    [source |-> spec.source,
     automated |-> payload.syncPolicy.automated,
     retry |-> payload.syncPolicy.retry,
     syncOptions |-> payload.syncPolicy.syncOptions]
ControllerAfter(before, o) ==
    LET ws == Writes(o.reqs) IN
    IF ws # <<>> /\ ws[Len(ws)].resp = 200
        THEN Observed(Applied(o.seen.spec, ws[Len(ws)].payload), TRUE)
    ELSE IF \E i \in 1..Len(ws) : ws[i].resp = 0 THEN Unobserved
    ELSE IF o.seen.found THEN Observed(o.seen.spec, FALSE)
    ELSE before
ReadsAs(before, o) == (before.known /\ o.seen.found) => o.seen.spec = before.spec

\* the body of a non-200 answer to the rollback POST
NoBody == [json |-> FALSE]
AutoSyncMessage == <<"application has ", "Auto-Sync", " enabled">>
OtherMessage == <<"permission denied">>
ErrorBodies ==
    {NoBody}
    \cup {[json |-> TRUE, code |-> c, message |-> m]
            : c \in {9, 5}, m \in {AutoSyncMessage, OtherMessage}}
    \cup {[json |-> TRUE, code |-> 9],                       \* no message key
          [json |-> TRUE, code |-> 9, null_message |-> TRUE],  \* "message": null
          [json |-> TRUE, message |-> AutoSyncMessage]}      \* no code key

\* error_code == 9 and "auto-sync" in error_message, the message lower-cased
\* (IsAutoSyncErrorAnyCode: faulty variant that accepts any code)
Lower(atom) == IF atom = "Auto-Sync" THEN "auto-sync" ELSE atom
IsAutoSyncErrorAnyCode(body) ==
    /\ body.json
    /\ "message" \in DOMAIN body
    /\ \E i \in 1..Len(body.message) : Lower(body.message[i]) = "auto-sync"
IsAutoSyncError(body) ==
    /\ body.json
    /\ "code" \in DOMAIN body /\ body.code = 9
    /\ "message" \in DOMAIN body
    /\ \E i \in 1..Len(body.message) : Lower(body.message[i]) = "auto-sync"

\* a call one client operation makes to another, with the value it returned
Call(fn, ret) == [fn |-> fn, ret |-> ret]

\* faulty variant: the retry reported as a success whatever its answer
RetryResultAlwaysOk(rst) == "ok"
\* the result of the retried POST, which is final
RetryResult(rst) == IF rst = 200 THEN "ok" ELSE "error"

\* faulty variant: automated sync switched on again after the retry
RetryPostsRestoring(post) ==
    <<post, Request("PATCH", "application", post.app,
                    [kind |-> "patch",
                     syncPolicy |-> [automated |-> "present", retry |-> Absent,
                                     syncOptions |-> Absent],
                     hasSyncPolicy |-> TRUE], 200)>>
\* faulty variant: the retry made twice
RetryPostsTwice(post) == <<post, post>>
\* the retry: one more POST, not in a loop
RetryPosts(post) == <<post>>

\* faulty variant: the remediation attempted whatever the configuration
RemediationAlways == TRUE
\* if Config.AUTO_DISABLE_SYNC_ON_ROLLBACK
RemediationEnabled == AUTO_DISABLE_SYNC_ON_ROLLBACK

\* rollback_application.  The first POST, when answered with a status other
\* than 200, carries the body of that answer.
rollback_application(app_name, revision_id) ==
    IF ~IntParses(revision_id) THEN {[ret |-> "error", reqs |-> <<>>, calls |-> <<>>]}
    ELSE
      LET payload == [kind |-> "rollback", name |-> app_name,
                      id |-> IntValue(revision_id), dryRun |-> FALSE]
          Post(st) == Request("POST", "rollback", app_name, payload, st)
          Refused(body) == [method |-> "POST", op |-> "rollback", app |-> app_name,
                            payload |-> payload, resp |-> 500, body |-> body]
      IN
      {[ret |-> "error", reqs |-> <<Post(0)>>, calls |-> <<>>],
       [ret |-> "ok", reqs |-> <<Post(200)>>, calls |-> <<>>]}
      \cup
      UNION {
        IF ~IsAutoSyncError(body)
        THEN {[ret |-> "error", reqs |-> <<Refused(body)>>, calls |-> <<>>]}
        ELSE IF ~RemediationEnabled
             THEN {[ret |-> "autosync_enabled", reqs |-> <<Refused(body)>>, calls |-> <<>>]}
        ELSE UNION {
          IF ~d.ret THEN {[ret |-> "autosync_enabled", reqs |-> <<Refused(body)>> \o d.reqs,
                           calls |-> <<Call("disable_auto_sync", FALSE)>>]}
          ELSE {[ret |-> RetryResult(rst),
                 reqs |-> <<Refused(body)>> \o d.reqs \o RetryPosts(Post(rst)),
                 calls |-> <<Call("disable_auto_sync", TRUE)>>]
                  : rst \in RawStatuses}
          : d \in disable_auto_sync(app_name)}
        : body \in ErrorBodies}

\* logs_application: the response text of a 200 answer, or None
LogBodies == {"", "records"}
logs_application(app_name) ==
    {[ret |-> IF Succeeded(st) THEN body ELSE None,
      reqs |-> <<Request("GET", "logs", app_name, NoPayload, st)>>]
       : st \in MakeRequestStatuses, body \in LogBodies}

\* list_applications: data.get("items", []) of a 200 answer, or None; a 200
\* answer whose body is not JSON makes response.json() raise, outside any try
ItemLists == {"absent", "empty", "some"}
list_applications ==
    {[ret |-> IF Succeeded(st) THEN items ELSE None,
      reqs |-> <<Request("GET", "applications", <<>>, NoPayload, st)>>]
       : st \in MakeRequestStatuses, items \in ItemLists}
    \cup
    {[ret |-> Raises, reqs |-> <<Request("GET", "applications", <<>>, NoPayload, 200)>>]}

----------------------------------------------------------------------------
(* handle_interactions *)

Falsy(x) == x \in {None, ""}
NoTokenText == <<>>
Reply(kind, app, rev, up) == [kind |-> kind, app |-> app, rev |-> rev, delivered |-> up]
Outcome(u, a, s, st) == [url |-> u, argo |-> a, slack |-> s, status |-> st]

\* payload.get("actions", [{}])[0].get("value"); "IndexError" for an empty list
ActionValue(payload) ==
    IF ~payload.actions.present THEN None
    ELSE IF payload.actions.list = <<>> THEN "IndexError"
    ELSE IF "value" \in DOMAIN payload.actions.list[1]
         THEN payload.actions.list[1].value ELSE None

\* requests.post(response_url, ...) outside any try: an exception ends the handler
Unguarded(up) == IF up THEN 200 ELSE 500

\* faulty variant: the check applied to every action value
InteractionDeniedAlways(action_value, user_id) ==
    ~Falsy(user_id) /\ ~is_user_authorized(user_id)
\* faulty variant: the check applied to "yes" only
InteractionDeniedYesOnly(action_value, user_id) ==
    action_value = "yes" /\ ~Falsy(user_id) /\ ~is_user_authorized(user_id)
\* the authorization check at the top of the handler
InteractionDenied(action_value, user_id) ==
    action_value # "no" /\ ~Falsy(user_id) /\ ~is_user_authorized(user_id)

\* faulty variant: the configuration not consulted
RollbackReplyKindFlagBlind(rollback_status) ==
    IF rollback_status = "ok" THEN "rollback_ok"
    ELSE IF rollback_status = "autosync_enabled" THEN "autosync_remediation_failed"
    ELSE "rollback_failed"
\* the reply of the rollback_app branch, by rollback_status
RollbackReplyKind(rollback_status) ==
    IF rollback_status = "ok" THEN "rollback_ok"
    ELSE IF rollback_status = "autosync_enabled"
         THEN IF AUTO_DISABLE_SYNC_ON_ROLLBACK
              THEN "autosync_remediation_failed"
              ELSE "autosync_manual"
    ELSE "rollback_failed"

\* faulty variant: the callback kind ignored, every confirmation taken for a
\* sync
ConfirmedOutcomesKindBlind(payload, up) ==
    LET app_name == extract_app_name_from_message(payload.blocks) IN
    IF app_name.found THEN
        {Outcome(<<Reply(IF o.ret = "ok" THEN "sync_ok" ELSE "sync_failed",
                         app_name.text, NoTokenText, up)>>,
                 o.reqs, <<>>, Unguarded(up))
           : o \in sync_application(app_name.text)}
    ELSE {Outcome(<<Reply("no_app_name", NoTokenText, NoTokenText, up)>>, <<>>, <<>>,
                  Unguarded(up))}

\* the "yes" branches, by callback_id
ConfirmedOutcomes(payload, up) ==
    LET cb == payload.callback_id
        app_name == extract_app_name_from_message(payload.blocks)
        revision_id == extract_revision_id_from_message(payload.blocks)
    IN
    IF cb = "list_app_confirmation" THEN
        {IF o.ret = Raises THEN Outcome(<<>>, o.reqs, <<>>, 500)
         ELSE IF o.ret \in {"some"}
         THEN Outcome(<<Reply("apps_table", NoTokenText, NoTokenText, up)>>, o.reqs, <<>>, 200)
         ELSE Outcome(<<Reply("list_failed", NoTokenText, NoTokenText, up)>>, o.reqs, <<>>,
                      Unguarded(up))
           : o \in list_applications}
    ELSE IF cb = "rollback_revisions" THEN
        IF app_name.found THEN
            UNION {IF o.ret = NotJson THEN {Outcome(<<>>, o.reqs, <<>>, 500)}
                   ELSE IF o.ret.found
                   THEN {Outcome(<<Reply("revisions_table", app_name.text, NoTokenText, up)>>,
                                 o.reqs \o lookups, <<>>, 200)
                           : lookups \in UNION {DetailLookups([name |-> app_name.text,
                                                                 source |-> SourceOf(o.ret.spec.source)],
                                                                h)
                                                  : h \in Histories}}
                   ELSE {Outcome(<<Reply("revisions_failed", app_name.text, NoTokenText,
                                         up)>>,
                                 o.reqs, <<>>, Unguarded(up))}
                     : o \in list_application_by_name(app_name.text)}
        ELSE {Outcome(<<Reply("no_app_name", NoTokenText, NoTokenText, up)>>, <<>>, <<>>,
                      Unguarded(up))}
    ELSE IF cb = "sync_app" THEN
        IF app_name.found THEN
            {Outcome(<<Reply(IF o.ret = "ok" THEN "sync_ok" ELSE "sync_failed",
                             app_name.text, NoTokenText, up)>>,
                     o.reqs, <<>>, Unguarded(up))
               : o \in sync_application(app_name.text)}
        ELSE {Outcome(<<Reply("no_app_name", NoTokenText, NoTokenText, up)>>, <<>>, <<>>,
                      Unguarded(up))}
    ELSE IF cb = "rollback_app" THEN
        IF app_name.found /\ revision_id.found THEN
            {[url |-> <<Reply(RollbackReplyKind(o.ret), app_name.text,
                              IF o.ret = "ok" THEN revision_id.text ELSE NoTokenText,
                              up)>>,
              argo |-> o.reqs, slack |-> <<>>, status |-> Unguarded(up),
              calls |-> <<Call("rollback_application", o.ret)>> \o o.calls]
               : o \in rollback_application(app_name.text, revision_id.text)}
        ELSE {Outcome(<<Reply("no_app_or_revision", NoTokenText, NoTokenText, up)>>,
                      <<>>, <<>>, Unguarded(up))}
    ELSE IF cb = "logs_app" THEN
        IF app_name.found THEN
            {IF o.ret \notin {None, ""}
             THEN Outcome(<<Reply("logs_notice", NoTokenText, NoTokenText, up)>>, o.reqs,
                          <<[kind |-> "upload", callback_id |-> None,
                             to |-> payload.channel_id, text |-> <<Code(app_name.text)>>]>>,
                          200)
             ELSE Outcome(<<Reply("logs_failed", app_name.text, NoTokenText, up)>>,
                          o.reqs, <<>>, Unguarded(up))
               : o \in logs_application(app_name.text)}
        ELSE {Outcome(<<Reply("no_app_name", NoTokenText, NoTokenText, up)>>, <<>>, <<>>,
                      Unguarded(up))}
    ELSE {Outcome(<<>>, <<>>, <<>>, 200)}

\* faulty variant: the dispatch made whatever the button clicked
InteractionOutcomesAnyValue(payload, up) ==
    IF ~payload.parses THEN {Outcome(<<>>, <<>>, <<>>, 400)}
    ELSE ConfirmedOutcomes(payload, up)

\* the whole handler: the possible outcomes for a payload, the response URL
\* being reachable (up) or not
InteractionOutcomes(payload, up) ==
    LET action_value == ActionValue(payload) IN
    IF ~payload.parses THEN {Outcome(<<>>, <<>>, <<>>, 400)}
    ELSE IF action_value = "IndexError" THEN {Outcome(<<>>, <<>>, <<>>, 500)}
    ELSE IF Falsy(payload.callback_id) \/ Falsy(action_value) \/ Falsy(payload.response_url)
         THEN {Outcome(<<>>, <<>>, <<>>, 200)}
    ELSE IF InteractionDenied(action_value, payload.user_id)
         THEN {Outcome(<<Reply("access_denied", NoTokenText, NoTokenText, up)>>,
                       <<>>, <<>>, 200)}
    ELSE IF action_value = "no"
         THEN {Outcome(<<Reply("cancelled", NoTokenText, NoTokenText, up)>>, <<>>, <<>>, 200)}
    ELSE IF action_value # "yes" THEN {Outcome(<<>>, <<>>, <<>>, 200)}
    ELSE ConfirmedOutcomes(payload, up)

----------------------------------------------------------------------------
(* Inputs *)

\* the rollback rule, the longest of the grammar, takes two argument words
GrammarArity == 2

AllowLists == {{}, {"U1"}, {"U1", "U2"}}

RECURSIVE Join(_, _)
Join(ws, sep) ==
    IF ws = <<>> THEN <<>>
    ELSE IF Len(ws) = 1 THEN ws[1]
    ELSE ws[1] \o sep \o Join(Tail(ws), sep)

\* first words: the keywords, a keyword in another case, a keyword glued to a
\* character; argument words: the tokens and a keyword
HeadWords == {<<k>> : k \in Keywords} \cup {<<"Sync">>, <<"sync", "a">>}
ArgWords == Tokens \cup {<<"sync">>}
ArgLists ==
    SeqsUpTo(ArgWords, IF MaxArgs < GrammarArity THEN MaxArgs ELSE GrammarArity)
    \cup (IF MaxArgs > GrammarArity
          THEN {<<a, b, c>> : a \in {<<"a">>}, b \in {<<"1">>, <<"a">>}, c \in {<<"1">>}}
          ELSE {})
Commands == {<<>>} \cup {<<h>> \o args : h \in HeadWords, args \in ArgLists}
SmallCommands == {<< <<"help">> >>, << <<"sync">>, <<"a">> >>}

\* event.text as Slack delivers it: the mention of the bot, then the command
PlainText(ws) == <<MENTION, SP>> \o Join(ws, <<SP>>)
SpaceyText(ws) == <<MENTION, SP, SP>> \o Join(ws, <<SP, SP>>) \o <<SP>>
Texts == {PlainText(ws) : ws \in Commands} \cup {SpaceyText(ws) : ws \in Commands}
OddTexts == {Join(ws, <<SP>>) : ws \in SmallCommands}
            \cup {PlainText(ws) \o <<SP, MENTION>> : ws \in SmallCommands}
            \cup {<<SP>> \o PlainText(ws) : ws \in SmallCommands}

MentionEvents ==
    {[subtype |-> FALSE, channel |-> "C1", user |-> u, authorizations |-> <<"BOT">>,
      text |-> t] : u \in UserIds, t \in Texts \cup OddTexts}
    \cup
    {[subtype |-> st, channel |-> ch, user |-> u, authorizations |-> az,
      text |-> PlainText(ws)]
       : st \in BOOLEAN, ch \in {"C1", None}, u \in {"U2", None},
         az \in {<<>>, <<None>>, <<"BOT">>}, ws \in SmallCommands}

ResponseUrl == "https://hooks.slack.example/1"
Button(v) == [present |-> TRUE, list |-> <<[name |-> "confirmation", value |-> v]>>]

\* a click on one of the two buttons of the prompt
ClickPayloads(p) ==
    {[parses |-> TRUE, callback_id |-> p.callback_id, actions |-> Button(v),
      response_url |-> ResponseUrl, channel_id |-> "C1", user_id |-> u,
      blocks |-> SlackRender(p.text)]
       : v \in {"yes", "no"}, u \in UserIds}

\* any other POST to /interactions
OtherBlocks ==
    {<<>>,
     SlackRender(<<BotMention, Txt("hello")>>),
     SlackRender(<<Code(<<"a">>)>>),
     SlackRender(<<Code(<<"1">>)>>),
     SlackRender(<<Code(<<"a">>), Code(<<"1">>)>>),
     SlackRender(<<Code(<<"1">>), Code(<<"a">>)>>),
     << [type |-> "rich_text",
         elements |-> << [type |-> "rich_text_section",
                          elements |-> << [type |-> "emoji", style |-> [bold |-> TRUE]],
                                          [type |-> "text", text |-> <<>>,
                                           style |-> [code |-> TRUE]] >>] >>] >>}
OtherActions ==
    {[present |-> FALSE], [present |-> TRUE, list |-> <<>>],
     [present |-> TRUE, list |-> <<[name |-> "confirmation"]>>],
     Button("yes"), Button("no"), Button("maybe")}
OtherPayloads ==
    {[parses |-> ok, callback_id |-> cb, actions |-> av, response_url |-> ru,
      channel_id |-> "C1", user_id |-> u, blocks |-> bl]
       : ok \in {TRUE}, cb \in CallbackKinds \cup {"other", None}, av \in OtherActions,
         ru \in {ResponseUrl, None}, u \in UserIds \cup {None}, bl \in OtherBlocks}
    \cup
    {[parses |-> FALSE, callback_id |-> None, actions |-> [present |-> FALSE],
      response_url |-> None, channel_id |-> None, user_id |-> None, blocks |-> <<>>]}

----------------------------------------------------------------------------
(* _logs_table, step by step.  Flask serves each request on a thread of   *)
(* its own, so two "yes" callbacks of kind logs_app can be inside          *)
(* _logs_table at the same time; /tmp and the clock are what they share.   *)

Threads == {"t1", "t2"}
LogApps == {<<"a">>, <<"b">>}
\* table_string: the table rendered from the log lines the thread fetched
Tables == {"table 1", "table 2"}
NoFile == [kind |-> "none"]
\* a thread that is not handling a request
Waiting == [pc |-> "waiting", app_name |-> <<>>, table_string |-> "", log_file |-> NoFile,
            upload |-> "none", unlink |-> "none"]
\* log_dir / f"{app_name}_{datetime.now().strftime('%Y%m%d-%H%M%S')}.logs"
LogFile(app_name, second) == [kind |-> "file", app_name |-> app_name, stamp |-> second]
FileExists(name) == \E f \in tmp : f.name = name
ContentOf(name) == (CHOOSE f \in tmp : f.name = name).content

----------------------------------------------------------------------------
(* The state machine.  The model follows one conversation at a time: a     *)
(* mention, then possibly a click on the prompt it produced; or a single   *)
(* request of another kind.  slack, url, argo, status and result are what  *)
(* the last request did.                                                   *)

Init ==
    /\ ALLOWED_USERS \in AllowLists
    /\ AUTO_DISABLE_SYNC_ON_ROLLBACK \in BOOLEAN
    /\ ROLLBACK_TABLE_FIELDS \in BOOLEAN
    /\ prompt = NoPrompt
    /\ handler = "idle"
    /\ input = [kind |-> "none"]
    /\ slack = <<>>
    /\ url = <<>>
    /\ argo = <<>>
    /\ status = 0
    /\ result = ""
    /\ calls = <<>>
    /\ controller = Unobserved
    /\ clicked = <<>>
    /\ now = 1
    /\ tmp = {}
    /\ threads = [t \in Threads |-> Waiting]

\* the prompt Slack now shows, with the command words it was produced from
PromptOf(event, msgs) ==
    IF msgs # <<>> /\ msgs[1].kind = "prompt"
    THEN [kind |-> "prompt", callback_id |-> msgs[1].callback_id, text |-> msgs[1].text,
          command |-> Words(CommandText(event))]
    ELSE NoPrompt

handle_mentions ==
    /\ handler = "idle"
    /\ \E event \in MentionEvents :
         /\ input' = event
         /\ slack' = MentionMessages(event)
         /\ prompt' = PromptOf(event, MentionMessages(event))
    /\ handler' = "handle_mentions"
    /\ url' = <<>>
    /\ argo' = <<>>
    /\ status' = 200
    /\ result' = ""
    /\ calls' = <<>>
    /\ clicked' = <<>>
    /\ UNCHANGED <<ALLOWED_USERS, AUTO_DISABLE_SYNC_ON_ROLLBACK, ROLLBACK_TABLE_FIELDS, controller>>
    /\ UNCHANGED logsVars

handle_interactions ==
    /\ \/ handler = "idle"
       \/ handler \in {"handle_mentions", "prompt_shown"} /\ prompt # NoPrompt
    /\ \E payload \in (IF prompt = NoPrompt THEN OtherPayloads ELSE ClickPayloads(prompt)),
          up \in BOOLEAN :
         \E o \in InteractionOutcomes(payload, up) :
            /\ input' = payload
            /\ url' = o.url
            /\ argo' = o.argo
            /\ slack' = o.slack
            /\ status' = o.status
            /\ calls' = IF "calls" \in DOMAIN o THEN o.calls ELSE <<>>
            /\ clicked' = IF prompt = NoPrompt THEN <<>>
                          ELSE Append(clicked, o.argo # <<>>)
    /\ handler' = "handle_interactions"
    /\ result' = ""
    /\ UNCHANGED <<ALLOWED_USERS, AUTO_DISABLE_SYNC_ON_ROLLBACK, ROLLBACK_TABLE_FIELDS, prompt, controller>>
    /\ UNCHANGED logsVars

\* Config.is_user_authorized called on its own
call_is_user_authorized ==
    /\ handler = "idle"
    /\ \E user_id \in UserIds \cup {"U3"} :
         /\ input' = [user_id |-> user_id]
         /\ result' = IF is_user_authorized(user_id) THEN "True" ELSE "False"
    /\ handler' = "is_user_authorized"
    /\ slack' = <<>> /\ url' = <<>> /\ argo' = <<>> /\ status' = 0 /\ calls' = <<>>
    /\ UNCHANGED <<ALLOWED_USERS, AUTO_DISABLE_SYNC_ON_ROLLBACK, ROLLBACK_TABLE_FIELDS, prompt, clicked, controller>>
    /\ UNCHANGED logsVars

\* argocd_api.rollback_application called on its own
call_rollback_application ==
    /\ handler = "idle"
    /\ \E app_name \in {<<"a">>}, revision_id \in RevStrings :
         \E o \in rollback_application(app_name, revision_id) :
            /\ input' = [app_name |-> app_name, revision_id |-> revision_id]
            /\ argo' = o.reqs
            /\ result' = o.ret
            /\ calls' = o.calls
    /\ handler' = "rollback_application"
    /\ slack' = <<>> /\ url' = <<>> /\ status' = 0
    /\ UNCHANGED <<ALLOWED_USERS, AUTO_DISABLE_SYNC_ON_ROLLBACK, ROLLBACK_TABLE_FIELDS, prompt, clicked, controller>>
    /\ UNCHANGED logsVars

\* argocd_api.disable_auto_sync called on its own, once or again
call_disable_auto_sync ==
    /\ handler \in {"idle", "disable_auto_sync"}
    /\ \E app_name \in {<<"a">>} :
         \E o \in disable_auto_sync(app_name) :
            /\ ReadsAs(controller, o)
            /\ input' = [app_name |-> app_name, application |-> controller]
            /\ argo' = o.reqs
            /\ result' = IF o.ret THEN "True" ELSE "False"
            /\ calls' = <<Call("list_application_by_name", o.seen)>>
            /\ controller' = ControllerAfter(controller, o)
    /\ handler' = "disable_auto_sync"
    /\ slack' = <<>> /\ url' = <<>> /\ status' = 0
    /\ UNCHANGED <<ALLOWED_USERS, AUTO_DISABLE_SYNC_ON_ROLLBACK, ROLLBACK_TABLE_FIELDS, prompt, clicked>>
    /\ UNCHANGED logsVars

\* a client operation that makes one request, called on its own
ClientCall(name, outcomes, args) ==
    /\ handler = "idle"
    /\ \E o \in outcomes :
         /\ argo' = o.reqs
         /\ result' = o.ret
    /\ input' = args
    /\ handler' = name
    /\ slack' = <<>> /\ url' = <<>> /\ status' = 0 /\ calls' = <<>>
    /\ UNCHANGED <<ALLOWED_USERS, AUTO_DISABLE_SYNC_ON_ROLLBACK, ROLLBACK_TABLE_FIELDS, prompt, clicked, controller>>
    /\ UNCHANGED logsVars

call_sync_application ==
    \E app_name \in {<<"a">>} :
        ClientCall("sync_application", sync_application(app_name), [app_name |-> app_name])

call_list_applications ==
    ClientCall("list_applications", list_applications, [kind |-> "none"])

call_list_application_by_name ==
    \E app_name \in {<<"a">>} :
        ClientCall("list_application_by_name",
                   {[ret |-> IF o.ret = NotJson THEN Raises
                             ELSE IF o.ret.found THEN "application" ELSE None,
                     reqs |-> o.reqs]
                      : o \in list_application_by_name(app_name)},
                   [app_name |-> app_name])

call_get_sync_windows ==
    \E app_name \in {<<"a">>} :
        ClientCall("get_sync_windows", get_sync_windows(app_name), [app_name |-> app_name])

call_get_appdetails_for_revision ==
    \E src \in Sources \cup {NoSourceKey}, revision_hash \in RevisionHashes,
       history_item \in HistoryItems :
        LET app == [name |-> <<"a">>, source |-> src] IN
        ClientCall("get_appdetails_for_revision",
                   get_appdetails_for_revision(app, 1, revision_hash, history_item),
                   [app |-> app, revision_id |-> 1, revision_hash |-> revision_hash,
                    history_item |-> history_item])

call_logs_application ==
    \E app_name \in {<<"a">>} :
        ClientCall("logs_application", logs_application(app_name), [app_name |-> app_name])

\* the request is over and the prompt is still shown: it can be clicked again
AwaitNextClick ==
    /\ handler = "handle_interactions"
    /\ prompt # NoPrompt
    /\ Len(clicked) < MaxClicks
    /\ handler' = "prompt_shown"
    /\ input' = [kind |-> "none"]
    /\ slack' = <<>> /\ url' = <<>> /\ argo' = <<>> /\ status' = 0 /\ result' = ""
    /\ calls' = <<>>
    /\ UNCHANGED <<ALLOWED_USERS, AUTO_DISABLE_SYNC_ON_ROLLBACK, ROLLBACK_TABLE_FIELDS, prompt, clicked, controller>>
    /\ UNCHANGED logsVars

\* the conversation is over; the next request starts a new one
EndConversation ==
    /\ handler # "idle"
    /\ handler' = "idle"
    /\ prompt' = NoPrompt
    /\ input' = [kind |-> "none"]
    /\ slack' = <<>> /\ url' = <<>> /\ argo' = <<>> /\ status' = 0 /\ result' = ""
    /\ calls' = <<>>
    /\ controller' = Unobserved
    /\ clicked' = <<>>
    /\ UNCHANGED <<ALLOWED_USERS, AUTO_DISABLE_SYNC_ON_ROLLBACK, ROLLBACK_TABLE_FIELDS>>
    /\ UNCHANGED logsVars

Next ==
    \/ handle_mentions
    \/ handle_interactions
    \/ call_is_user_authorized
    \/ call_rollback_application
    \/ call_disable_auto_sync
    \/ call_sync_application
    \/ call_list_applications
    \/ call_list_application_by_name
    \/ call_get_sync_windows
    \/ call_logs_application
    \/ call_get_appdetails_for_revision
    \/ AwaitNextClick
    \/ EndConversation

Spec == Init /\ [][Next]_vars

----------------------------------------------------------------------------
(* Two logs_app callbacks served at the same time *)

\* handle_interactions reached reply._logs_table with the logs it fetched
logs_table_enter(t) ==
    /\ threads[t].pc = "waiting"
    /\ \E app_name \in LogApps, table_string \in Tables :
         threads' = [threads EXCEPT ![t] =
                       [Waiting EXCEPT !.pc = "notice", !.app_name = app_name,
                                       !.table_string = table_string]]
    /\ UNCHANGED <<now, tmp>>
    /\ UNCHANGED requestVars

\* the notice is posted to the response URL, then the file name is built
\* from the application name and the current second
logs_table_name_file(t) ==
    /\ threads[t].pc = "notice"
    /\ threads' = [threads EXCEPT ![t].pc = "write",
                                  ![t].log_file = LogFile(threads[t].app_name, now)]
    /\ UNCHANGED <<now, tmp>>
    /\ UNCHANGED requestVars

\* with open(log_file, "w") as f: f.write(table_string)
logs_table_write(t) ==
    /\ threads[t].pc = "write"
    /\ tmp' = {f \in tmp : f.name # threads[t].log_file}
                \cup {[name |-> threads[t].log_file, content |-> threads[t].table_string]}
    /\ threads' = [threads EXCEPT ![t].pc = "upload"]
    /\ UNCHANGED now
    /\ UNCHANGED requestVars

\* slack_client.files_upload_v2(file=str(log_file)): the file is read and
\* sent; a missing file (IOError) or a SlackApiError ends the function
logs_table_upload(t) ==
    /\ threads[t].pc = "upload"
    /\ \/ /\ FileExists(threads[t].log_file)
          /\ threads' = [threads EXCEPT ![t].pc = "unlink",
                                        ![t].upload = ContentOf(threads[t].log_file)]
       \/ /\ FileExists(threads[t].log_file)
          /\ threads' = [threads EXCEPT ![t].pc = "done", ![t].upload = "SlackApiError"]
       \/ /\ ~FileExists(threads[t].log_file)
          /\ threads' = [threads EXCEPT ![t].pc = "done", ![t].upload = "FileNotFoundError"]
    /\ UNCHANGED <<now, tmp>>
    /\ UNCHANGED requestVars

\* log_file.unlink(); a missing file raises FileNotFoundError, an IOError
logs_table_unlink(t) ==
    /\ threads[t].pc = "unlink"
    /\ IF FileExists(threads[t].log_file)
       THEN /\ tmp' = {f \in tmp : f.name # threads[t].log_file}
            /\ threads' = [threads EXCEPT ![t].pc = "done", ![t].unlink = "removed"]
       ELSE /\ tmp' = tmp
            /\ threads' = [threads EXCEPT ![t].pc = "done",
                                          ![t].unlink = "FileNotFoundError"]
    /\ UNCHANGED now
    /\ UNCHANGED requestVars

\* a second passes
Tick ==
    /\ now < MaxClock
    /\ now' = now + 1
    /\ UNCHANGED <<tmp, threads>>
    /\ UNCHANGED requestVars

NextLogs ==
    \/ \E t \in Threads : logs_table_enter(t)
    \/ \E t \in Threads : logs_table_name_file(t)
    \/ \E t \in Threads : logs_table_write(t)
    \/ \E t \in Threads : logs_table_upload(t)
    \/ \E t \in Threads : logs_table_unlink(t)
    \/ Tick

SpecLogs == Init /\ [][NextLogs]_vars

----------------------------------------------------------------------------
(* Properties *)

\* membership in the configured allow-list, stated on the configuration itself
OnAllowList(user_id) == ALLOWED_USERS = {} \/ user_id \in ALLOWED_USERS

\* the callback kind the grammar of the specification assigns to a command,
\* given as its words: "help", "none" or one of CallbackKinds
GrammarIntent(ws) ==
    IF ws = << <<"help">> >> THEN "help"
    ELSE IF Len(ws) = 2 /\ ws[1] = <<"rollback_revisions">> THEN "rollback_revisions"
    ELSE IF Len(ws) = 2 /\ ws[1] = <<"sync">> THEN "sync_app"
    ELSE IF Len(ws) = 2 /\ ws[1] = <<"logs">> THEN "logs_app"
    ELSE IF Len(ws) = 3 /\ ws[1] = <<"rollback">> THEN "rollback_app"
    ELSE IF ws = << <<"list_apps">> >> THEN "list_app_confirmation"
    ELSE "none"

\* the inline-code tokens of a message text, in order
CodeTokens(message_text) ==
    LET codes == SelectSeq(message_text, LAMBDA part : "code" \in DOMAIN part)
    IN [i \in 1..Len(codes) |-> codes[i].text]

\* a mention that passed the payload checks, with the words of its command
AcceptedMention == handler = "handle_mentions" /\ EventAccepted(input)
MentionWords == Words(CommandText(input))

\* an interactive callback with callback_id, the given action value and
\* response_url present
CompleteCallback(value) ==
    /\ handler = "handle_interactions"
    /\ input.parses
    /\ ~Falsy(input.callback_id)
    /\ ~Falsy(input.response_url)
    /\ ActionValue(input) = value

DeniedReplies == SelectSeq(url, LAMBDA r : r.kind = "access_denied")
PromptsSent == SelectSeq(slack, LAMBDA m : m.kind = "prompt")

\* C1: every "yes" callback (callback_id and response_url present) clicked by a
\* user who is not authorized - the allow-list is not empty and does not hold
\* the payload's user id, a payload without a user id included - is answered
\* with the access-denied message and makes no deployment-controller request.
C1_YesCallbackIsGated ==
    (CompleteCallback("yes") /\ ALLOWED_USERS # {} /\ input.user_id \notin ALLOWED_USERS)
        => (Len(DeniedReplies) = 1 /\ argo = <<>>)

\* C2: is_user_authorized(userId) is true for every user id when the allow-list
\* is empty, and otherwise true exactly when userId is on the allow-list; with
\* the allow-list ["U1"], U1 is authorized and U2 is not.
C2_IsUserAuthorized ==
    handler = "is_user_authorized" =>
        /\ ALLOWED_USERS = {} => result = "True"
        /\ ALLOWED_USERS # {} => (result = "True" <=> input.user_id \in ALLOWED_USERS)
        /\ (ALLOWED_USERS = {"U1"} /\ input.user_id = "U1") => result = "True"
        /\ (ALLOWED_USERS = {"U1"} /\ input.user_id = "U2") => result = "False"
C2_Witness ==
    /\ handler = "is_user_authorized"
    /\ ALLOWED_USERS = {"U1"} /\ input.user_id = "U2" /\ result = "False"

\* C3: a "no" callback (callback_id and response_url present) bypasses the
\* authorization: for every user id and allow-list the handler posts exactly
\* one "Request cancelled." message to the response URL, no access-denied
\* message, makes no deployment-controller request and answers HTTP 200.
C3_NoBypassesAuthorization ==
    CompleteCallback("no") =>
        /\ Len(url) = 1 /\ url[1].kind = "cancelled"
        /\ DeniedReplies = <<>>
        /\ argo = <<>>
        /\ status = 200
C3_Witness ==
    /\ CompleteCallback("no")
    /\ ~Falsy(input.user_id) /\ ~OnAllowList(input.user_id)
    /\ Len(url) = 1 /\ url[1].kind = "cancelled"

\* C4: a mention whose stripped text is exactly "help" is answered with the
\* help message without any authorization check, for a user who is not on a
\* non-empty allow-list too; no deny message and no confirmation prompt is sent.
C4_HelpIsNotGated ==
    (AcceptedMention /\ CommandText(input) = <<"help">>) =>
        /\ slack = <<HelpMessage(input.user)>>
        /\ prompt = NoPrompt
C4_Witness ==
    /\ AcceptedMention /\ CommandText(input) = <<"help">>
    /\ input.text # PlainText(<< <<"help">> >>)
    /\ ~OnAllowList(input.user)
    /\ slack = <<HelpMessage(input.user)>>

\* C5: for every recognized intent other than Help a confirmation prompt is
\* sent only if the mentioning user is authorized; an unauthorized user gets
\* the access-denied message and no confirmation prompt of any callback kind.
C5_PromptOnlyIfAuthorized ==
    handler = "handle_mentions" =>
        /\ PromptsSent # <<>> => OnAllowList(input.user)
        /\ (/\ EventAccepted(input)
            /\ GrammarIntent(MentionWords) \in CallbackKinds
            /\ ~OnAllowList(input.user))
              => (slack = <<DenyMessage(input.user)>> /\ prompt = NoPrompt)
C5_Witness ==
    /\ AcceptedMention
    /\ GrammarIntent(MentionWords) = "rollback_app"
    /\ ~OnAllowList(input.user)
    /\ slack = <<DenyMessage(input.user)>>

\* the blocks a click on the current prompt carries back
PromptBlocks == SlackRender(prompt.text)

\* C6: token reconstruction round trip.  For every rollback command whose
\* application name is not purely numeric and whose revision id is purely
\* numeric, the prompt handle_mentions renders is re-parsed by the two
\* extractors into exactly that pair; the application name alone is recovered
\* from the sync, logs and rollback_revisions prompts.
C6_RoundTrip ==
    prompt # NoPrompt =>
        LET ws == prompt.command IN
        /\ (GrammarIntent(ws) = "rollback_app" /\ ~IsDigit(ws[2]) /\ IsDigit(ws[3]))
             => /\ extract_app_name_from_message(PromptBlocks) = Found(ws[2])
                /\ extract_revision_id_from_message(PromptBlocks) = Found(ws[3])
        /\ (GrammarIntent(ws) \in {"sync_app", "logs_app", "rollback_revisions"}
              /\ ~IsDigit(ws[2]))
             => extract_app_name_from_message(PromptBlocks) = Found(ws[2])
C6_Witness ==
    /\ handler = "handle_mentions"
    /\ prompt # NoPrompt
    /\ prompt.command = << <<"rollback">>, <<"a", "1">>, <<"1", "1">> >>
    /\ extract_app_name_from_message(PromptBlocks) = Found(<<"a", "1">>)
    /\ extract_revision_id_from_message(PromptBlocks) = Found(<<"1", "1">>)

\* C7: for every command for which handle_mentions sends a prompt - purely
\* numeric application names and revisions that are not purely numeric
\* included - the "yes" callback on that prompt recovers exactly the typed
\* application name and revision id, and the controller is never called with
\* an application name or a revision id other than the typed ones.
C7_YesRecoversTypedTokens ==
    (CompleteCallback("yes") /\ prompt # NoPrompt /\ OnAllowList(input.user_id)) =>
        LET ws == prompt.command IN
        /\ Len(ws) >= 2 => extract_app_name_from_message(input.blocks) = Found(ws[2])
        /\ Len(ws) = 3 => extract_revision_id_from_message(input.blocks) = Found(ws[3])
        /\ Len(ws) >= 2 =>
             \A i \in 1..Len(argo) :
                /\ argo[i].app = ws[2]
                /\ argo[i].op = "rollback" =>
                     (IsDigit(ws[3]) /\ argo[i].payload.id = IntValue(ws[3]))

\* the grammar rules whose pattern matches a command text
RulesMatching(text) ==
    {k \in {"help", "list_apps"} : MatchBare(text, k)}
    \cup {k \in {"rollback_revisions", "sync", "logs"} : MatchArgs(text, k, 1) # <<>>}
    \cup {k \in {"rollback"} : MatchArgs(text, k, 2) # <<>>}

\* C8: for every recognized command text from an authorized user,
\* handle_mentions sends exactly one confirmation prompt, whose callback kind
\* is the one of the command and whose text embeds exactly the typed tokens,
\* in order; keywords are case-sensitive (any other text gets no prompt) and at
\* most one grammar rule matches any text.
C8_RecognizedCommandPrompts ==
    (AcceptedMention /\ OnAllowList(input.user)) =>
        LET kind == GrammarIntent(MentionWords) IN
        /\ kind \in CallbackKinds =>
             /\ Len(slack) = 1
             /\ slack[1].kind = "prompt"
             /\ slack[1].callback_id = kind
             /\ CodeTokens(slack[1].text) = Tail(MentionWords)
        /\ kind \notin CallbackKinds => PromptsSent = <<>>
        /\ Cardinality(RulesMatching(CommandText(input))) <= 1
C8_Witness ==
    /\ AcceptedMention
    /\ ALLOWED_USERS = {"U1"} /\ input.user = "U1"
    /\ MentionWords = << <<"rollback">>, <<"a">>, <<"1">> >>
    /\ Len(slack) = 1 /\ slack[1].callback_id = "rollback_app"
    /\ CodeTokens(slack[1].text) = << <<"a">>, <<"1">> >>

\* C9, as claimed: a mention whose stripped text matches no grammar rule is
\* silently ignored for every user, authorized or not: no message of any kind
\* is sent and the handler returns HTTP 200.
C9_UnrecognizedIsSilent ==
    (AcceptedMention /\ GrammarIntent(MentionWords) = "none") =>
        (slack = <<>> /\ status = 200)

\* C9, amended: a mention whose stripped text matches no grammar rule gets no
\* prompt and no help and the handler returns HTTP 200; an authorized user gets
\* no message at all, a user who is not authorized gets the access-denied
\* message.
C9_UnrecognizedSilentIfAuthorized ==
    (AcceptedMention /\ GrammarIntent(MentionWords) = "none") =>
        /\ status = 200
        /\ prompt = NoPrompt
        /\ OnAllowList(input.user) => slack = <<>>
        /\ ~OnAllowList(input.user) => slack = <<DenyMessage(input.user)>>
C9_Witness ==
    /\ AcceptedMention /\ GrammarIntent(MentionWords) = "none"
    /\ MentionWords = << <<"Sync">>, <<"a">> >>
    /\ ~OnAllowList(input.user)
    /\ slack = <<DenyMessage(input.user)>>

\* a numeral: an optional sign, then one or more decimal digits
IsNumeral(s) ==
    IsDigit(IF s # <<>> /\ Head(s) \in {"-", "+"} THEN Tail(s) ELSE s)

\* C10: rollback_application(app, revisionId) with a revisionId that is not
\* numeric returns "error" and issues no network request at all.
C10_NonNumericRevisionRejected ==
    (handler = "rollback_application" /\ ~IsNumeral(input.revision_id)) =>
        (result = "error" /\ argo = <<>>)

\* the rollback POSTs of the last call, in order
RollbackPosts == SelectSeq(argo, LAMBDA r : r.op = "rollback")
\* the first rollback POST was refused with code 9 and a message that contains
\* "auto-sync" in any letter case
GuardDetected ==
    /\ handler = "rollback_application"
    /\ RollbackPosts # <<>>
    /\ RollbackPosts[1].resp # 200
    /\ "body" \in DOMAIN RollbackPosts[1]
    /\ LET body == RollbackPosts[1].body IN
         /\ body.json
         /\ "code" \in DOMAIN body /\ body.code = 9
         /\ "message" \in DOMAIN body
         /\ \E i \in 1..Len(body.message) : body.message[i] \in {"auto-sync", "Auto-Sync"}

\* C11: when the first rollback POST is refused with the auto-sync guard,
\* remediation is enabled and disable_auto_sync succeeds, the POST is retried
\* exactly once and the retry decides the result: "ok" if it is answered 200,
\* "error" otherwise; no execution issues more than two rollback POSTs.
C11_RetryOnceAndFinal ==
    /\ Len(RollbackPosts) <= 2
    /\ (/\ GuardDetected
        /\ AUTO_DISABLE_SYNC_ON_ROLLBACK
        /\ calls = <<Call("disable_auto_sync", TRUE)>>)
          => /\ Len(RollbackPosts) = 2
             /\ argo[Len(argo)] = RollbackPosts[2]
             /\ RollbackPosts[2].payload = RollbackPosts[1].payload
             /\ result = (IF RollbackPosts[2].resp = 200 THEN "ok" ELSE "error")
C11_Witness ==
    /\ GuardDetected /\ AUTO_DISABLE_SYNC_ON_ROLLBACK
    /\ calls = <<Call("disable_auto_sync", TRUE)>>
    /\ Len(argo) = 5
    /\ RollbackPosts[2].resp = 500 /\ result = "error"

ApplicationRead ==
    /\ handler = "disable_auto_sync"
    /\ argo # <<>> /\ argo[1].method = "GET" /\ argo[1].resp = 200
    /\ calls[1].ret.found

\* C13: disable_auto_sync on an application whose syncPolicy.automated is
\* absent or empty makes exactly one read and no write and returns true; a
\* call that follows a successful disable reads the application without
\* "automated" and is such a no-op.
C13_AlreadyDisabledIsNoOp ==
    ApplicationRead =>
        /\ (controller.known /\ ~controller.written
               /\ controller.spec.automated \in {"absent", "empty"})
             => (Len(argo) = 1 /\ result = "True")
        /\ (input.application.known /\ input.application.written)
             => (Len(argo) = 1 /\ result = "True" /\ controller.spec.automated = "absent")
C13_Witness ==
    /\ ApplicationRead
    /\ input.application.known /\ input.application.written
    /\ Len(argo) = 1 /\ result = "True"

\* the last call of disable_auto_sync read an application whose
\* syncPolicy.automated is present
AutomatedPresent ==
    /\ handler = "disable_auto_sync"
    /\ calls[1].ret.found
    /\ calls[1].ret.spec.automated = "present"
Failed(req) == req.resp # 200

\* C14: with "automated" present disable_auto_sync first attempts a PATCH and,
\* if that attempt fails for any reason, falls back to a PUT; it returns false
\* only if both the PATCH and the PUT were attempted and both failed.
C14_PutFallbackOnAnyPatchFailure ==
    AutomatedPresent =>
        /\ Len(argo) >= 2 /\ argo[2].method = "PATCH"
        /\ Failed(argo[2]) => (Len(argo) = 3 /\ argo[3].method = "PUT")
        /\ result = "False" => (Len(argo) = 3 /\ Failed(argo[2]) /\ Failed(argo[3]))

\* the payload carries no action value: no "actions" key, an empty actions
\* list, or a first action without a value
NoActionValue(payload) ==
    \/ ~payload.actions.present
    \/ payload.actions.list = <<>>
    \/ "value" \notin DOMAIN payload.actions.list[1]
    \/ payload.actions.list[1].value \in {None, ""}
\* an interactive payload that parses but lacks a required field
Malformed ==
    /\ handler = "handle_interactions"
    /\ input.parses
    /\ \/ input.callback_id \in {None, ""}
       \/ input.response_url \in {None, ""}
       \/ NoActionValue(input)

\* C15: a malformed interactive payload - callback_id, action value or
\* response_url missing, an empty actions list included - is acknowledged with
\* HTTP 200 and dropped: no deployment-controller request, no post to the
\* response URL, no exception.
C15_MalformedPayloadDropped ==
    Malformed => (status = 200 /\ argo = <<>> /\ url = <<>> /\ slack = <<>>)

\* the texts of the styled leaf elements of the original message
Leaves(blocks) ==
    UNION {UNION {{blocks[i].elements[j].elements[k]
                     : k \in 1..Len(blocks[i].elements[j].elements)}
                  : j \in 1..Len(blocks[i].elements)}
           : i \in 1..Len(blocks)}
StyledTexts(blocks) ==
    {leaf.text : leaf \in {l \in Leaves(blocks) : "style" \in DOMAIN l /\ "text" \in DOMAIN l}}
        \ {<<>>}
NameTokens(blocks) == {t \in StyledTexts(blocks) : \E i \in 1..Len(t) : t[i] \notin Digits}
RevisionTokens(blocks) == StyledTexts(blocks) \ NameTokens(blocks)
\* a "yes" callback that passed the authorization check
ConfirmedCallback(kinds) ==
    /\ CompleteCallback("yes")
    /\ DeniedReplies = <<>>
    /\ input.callback_id \in kinds
ExtractionReported(kind) == Len(url) = 1 /\ url[1].kind = kind /\ argo = <<>>

\* C16: a "yes" callback of kind rollback_app calls rollback_application only
\* when both an application name and a revision id are recovered from the
\* original message; if either is missing the "could not extract" message is
\* posted and no controller request is made.  For sync_app, logs_app and
\* rollback_revisions the same holds of the application name.  A request is
\* only ever made for a token of the message, never for a default.
C16_ExtractionFailureReported ==
    /\ ConfirmedCallback({"rollback_app"}) =>
         /\ (NameTokens(input.blocks) = {} \/ RevisionTokens(input.blocks) = {})
              => ExtractionReported("no_app_or_revision")
         /\ \A i \in 1..Len(argo) : argo[i].app \in NameTokens(input.blocks)
         /\ (NameTokens(input.blocks) # {} /\ RevisionTokens(input.blocks) # {})
              => (argo # <<>> /\ argo[1].op = "rollback")
    /\ ConfirmedCallback({"sync_app", "logs_app", "rollback_revisions"}) =>
         /\ NameTokens(input.blocks) = {} => ExtractionReported("no_app_name")
         /\ \A i \in 1..Len(argo) : argo[i].app \in NameTokens(input.blocks)
         /\ NameTokens(input.blocks) # {} => argo # <<>>
C16_Witness ==
    /\ ConfirmedCallback({"rollback_app"})
    /\ NameTokens(input.blocks) = {<<"a">>} /\ RevisionTokens(input.blocks) = {}
    /\ ExtractionReported("no_app_or_revision")

\* an interactive callback whose action value is neither "yes" nor "no"
OtherActionValue ==
    /\ handler = "handle_interactions"
    /\ input.parses
    /\ ~Falsy(input.callback_id) /\ ~Falsy(input.response_url)
    /\ ~NoActionValue(input)
    /\ input.actions.list[1].value \notin {"yes", "no"}

\* C17, as claimed: a callback whose action value is neither "yes" nor "no" is
\* a no-op for every user: nothing is posted to the response URL and no
\* deployment-controller request is made.
C17_OtherValueIsNoOp ==
    OtherActionValue => (url = <<>> /\ argo = <<>>)

\* C17, amended: such a callback never makes a deployment-controller request
\* and is answered HTTP 200; nothing is posted to the response URL for an
\* authorized user or a payload without a user id, and exactly the
\* access-denied message for a user who is not authorized.
C17_OtherValueNoOpIfAuthorized ==
    OtherActionValue =>
        /\ argo = <<>> /\ slack = <<>> /\ status = 200
        /\ (Falsy(input.user_id) \/ OnAllowList(input.user_id)) => url = <<>>
        /\ (~Falsy(input.user_id) /\ ~OnAllowList(input.user_id))
             => (Len(url) = 1 /\ url[1].kind = "access_denied")
C17_Witness ==
    /\ OtherActionValue
    /\ input.actions.list[1].value = "maybe"
    /\ ALLOWED_USERS = {"U1"} /\ input.user_id = "U2"
    /\ Len(url) = 1 /\ url[1].kind = "access_denied" /\ argo = <<>>

\* an external call of the last request failed: a controller request that was
\* refused or got no answer, or a post to the response URL that raised
ExternalCallFailed ==
    \/ \E i \in 1..Len(argo) : argo[i].resp # 200
    \/ \E i \in 1..Len(url) : ~url[i].delivered

\* C18: every failure of an external call during a mention or interactive
\* handler is contained: it never leaves the handler as an unhandled
\* exception, and the handler still returns its HTTP acknowledgement.
C18_ExternalFailuresContained ==
    (handler \in {"handle_mentions", "handle_interactions"} /\ ExternalCallFailed)
        => status = 200

\* the read operations of the controller client
ReadOperations ==
    {"list_applications", "list_application_by_name", "get_sync_windows", "logs_application"}

\* C19: sync_application returns "ok" if and only if its single POST was
\* answered with HTTP 200; list_applications, list_application_by_name,
\* get_sync_windows and logs_application return None on every answer other
\* than 200 and on a transport failure; each of them makes exactly one request
\* per call, never a retry.
C19_SingleRequestOperations ==
    /\ handler = "sync_application" =>
         /\ Len(argo) = 1 /\ argo[1].method = "POST" /\ argo[1].op = "sync"
         /\ result = "ok" <=> argo[1].resp = 200
         /\ result \in {"ok", "error"}
    /\ handler \in ReadOperations =>
         /\ Len(argo) = 1 /\ argo[1].method = "GET"
         /\ argo[1].resp # 200 => result = None
C19_Witness ==
    /\ handler = "sync_application"
    /\ Len(argo) = 1 /\ argo[1].resp = 204 /\ result = "error"

\* C20: handlers of concurrently processed events share no mutable state.
\* For any interleaving of two logs_app callbacks, each handler uploads the
\* table it rendered itself, or fails on an error of Slack as it could alone,
\* and removes its own file: no file written by one handler is read,
\* overwritten or removed by the other.
C20_LogsHandlersIndependent ==
    \A t \in Threads :
        /\ threads[t].upload \in {"none", "SlackApiError", threads[t].table_string}
        /\ threads[t].unlink \in {"none", "removed"}
        /\ threads[t].pc \in {"upload", "unlink"} =>
             /\ FileExists(threads[t].log_file)
             /\ ContentOf(threads[t].log_file) = threads[t].table_string

\* the callbacks received for the current prompt that called the controller
DispatchedFor == SelectSeq(clicked, LAMBDA acted : acted)

\* C21: a prompt becomes inert after a single click: over any sequence of
\* interactive callbacks carrying the same prompt, at most one of them
\* dispatches a deployment-controller action.
C21_PromptActsOnce ==
    Len(DispatchedFor) <= 1

\* C22: disable_auto_sync and the retry are reached only when the first POST
\* was refused with code 9 and a message containing "auto-sync" and
\* remediation is enabled; every other answer that is not 200 (another code, a
\* message without "auto-sync", a missing or null message, a body that is not
\* JSON) and every transport failure gives "error" with exactly one rollback
\* POST and no read or write of the application.
C22_RemediationOnlyOnGuard ==
    (handler = "rollback_application" /\ argo # <<>>) =>
        /\ (calls # <<>> \/ Len(argo) > 1) => (GuardDetected /\ AUTO_DISABLE_SYNC_ON_ROLLBACK)
        /\ (argo[1].resp # 200 /\ ~GuardDetected)
             => (result = "error" /\ Len(argo) = 1 /\ argo[1].op = "rollback")
C22_Witness ==
    /\ handler = "rollback_application" /\ AUTO_DISABLE_SYNC_ON_ROLLBACK
    /\ Len(argo) = 1 /\ "body" \in DOMAIN argo[1]
    /\ argo[1].body = [json |-> TRUE, code |-> 5, message |-> AutoSyncMessage]
    /\ result = "error"

\* the writes of the last call of disable_auto_sync, and the spec it fetched
WritesMade == SelectSeq(argo, LAMBDA r : r.method \in {"PATCH", "PUT"})
Fetched == calls[1].ret.spec

\* C23: the write payloads of disable_auto_sync never contain
\* syncPolicy.automated and carry the fetched syncPolicy.retry and
\* syncPolicy.syncOptions unchanged, in the PATCH and in the PUT; the PUT
\* leaves every spec field outside syncPolicy as fetched and omits syncPolicy
\* when neither retry nor syncOptions exists.
C23_WritePayloads ==
    (handler = "disable_auto_sync" /\ WritesMade # <<>>) =>
        \A i \in 1..Len(WritesMade) :
            LET payload == WritesMade[i].payload IN
            /\ payload.syncPolicy.automated = "absent"
            /\ payload.syncPolicy.retry = Fetched.retry
            /\ payload.syncPolicy.syncOptions = Fetched.syncOptions
            /\ WritesMade[i].method = "PUT" =>
                 /\ payload.source = Fetched.source
                 /\ payload.hasSyncPolicy
                      <=> (Fetched.retry # "absent" \/ Fetched.syncOptions # "absent")
C23_Witness ==
    /\ handler = "disable_auto_sync"
    /\ Len(WritesMade) = 2
    /\ Fetched.retry = "limit 2" /\ Fetched.syncOptions = "absent"
    /\ Fetched.source = "repo 2"
    /\ WritesMade[2].payload.syncPolicy.retry = "limit 2"
    /\ WritesMade[2].payload.source = "repo 2"

\* a rollback_app "yes" callback that reached rollback_application, and the
\* status rollback_application returned to it
RollbackCalled ==
    /\ ConfirmedCallback({"rollback_app"})
    /\ extract_app_name_from_message(input.blocks).found
    /\ extract_revision_id_from_message(input.blocks).found
RollbackStatus == calls[1].ret

\* C24: for a rollback_app "yes" callback the reply is determined by the
\* rollback outcome: "ok" gives the success message, "autosync_enabled" the
\* manual-action message when remediation is disabled and the
\* remediation-failed message when it is enabled, "error" the generic failure
\* message.  The remediation-failed message is sent only when
\* disable_auto_sync was invoked and returned false.
C24_RollbackReplyByOutcome ==
    RollbackCalled =>
        /\ Len(url) = 1
        /\ calls # <<>> /\ calls[1].fn = "rollback_application"
        /\ RollbackStatus = "ok" => url[1].kind = "rollback_ok"
        /\ (RollbackStatus = "autosync_enabled" /\ ~AUTO_DISABLE_SYNC_ON_ROLLBACK)
             => url[1].kind = "autosync_manual"
        /\ (RollbackStatus = "autosync_enabled" /\ AUTO_DISABLE_SYNC_ON_ROLLBACK)
             => url[1].kind = "autosync_remediation_failed"
        /\ RollbackStatus = "error" => url[1].kind = "rollback_failed"
        /\ RollbackStatus \in {"ok", "autosync_enabled", "error"}
        /\ url[1].kind = "autosync_remediation_failed"
             => Tail(calls) = <<Call("disable_auto_sync", FALSE)>>
C24_Witness ==
    /\ RollbackCalled
    /\ AUTO_DISABLE_SYNC_ON_ROLLBACK
    /\ Len(url) = 1 /\ url[1].kind = "autosync_remediation_failed"
    /\ Len(argo) = 4

\* C25, as claimed: one invocation of rollback_application makes at most
\* three controller requests in total, the first POST, the requests of the
\* remediation and the retry counted.
C25_AtMostThreeRequests ==
    handler = "rollback_application" => Len(argo) <= 3

\* C25, amended: one invocation of rollback_application is strictly
\* sequential and makes at most five controller requests: the first POST, up
\* to three requests of the remediation (GET, PATCH, PUT, in that order) and
\* one retry POST, which is the last request.
C25_AtMostFiveRequests ==
    handler = "rollback_application" =>
        /\ Len(argo) <= 5
        /\ \A i \in 1..Len(argo) :
             /\ argo[i].op = "rollback" => i \in {1, Len(argo)}
             /\ argo[i].method = "GET" => i = 2
             /\ argo[i].method = "PATCH" => i = 3
             /\ argo[i].method = "PUT" => i = 4
        /\ Len(argo) > 1 => argo[2].method = "GET"
C25_Witness ==
    /\ handler = "rollback_application"
    /\ Len(argo) = 5
    /\ argo[4].method = "PUT" /\ argo[5].op = "rollback"

\* the requests, as <<method, operation>>, that each callback kind may make
RequestsOf(kind) ==
    IF kind = "list_app_confirmation" THEN {<<"GET", "applications">>}
    ELSE IF kind = "rollback_revisions"
         THEN {<<"GET", "application">>, <<"POST", "appdetails">>}
    ELSE IF kind = "sync_app" THEN {<<"POST", "sync">>}
    ELSE IF kind = "rollback_app"
         THEN {<<"POST", "rollback">>, <<"GET", "application">>,
               <<"PATCH", "application">>, <<"PUT", "application">>}
    ELSE IF kind = "logs_app" THEN {<<"GET", "logs">>}
    ELSE {}
Mutating(r) == r.op \in {"sync", "rollback"} \/ r.method \in {"PATCH", "PUT"}

\* C26: for an authorized "yes" callback the callback kind alone selects the
\* controller operation: list_app_confirmation only lists the applications,
\* rollback_revisions only reads the application and looks up revision
\* details, sync_app only syncs, rollback_app only runs rollback_application
\* (whose first request is the rollback POST), logs_app only reads the logs; a
\* kind outside these five makes no controller request and posts no reply.  No
\* mutating request is made for a read-only kind.
C26_KindSelectsOperation ==
    (CompleteCallback("yes") /\ DeniedReplies = <<>>) =>
        /\ \A i \in 1..Len(argo) :
             <<argo[i].method, argo[i].op>> \in RequestsOf(input.callback_id)
        /\ input.callback_id \notin CallbackKinds => (argo = <<>> /\ url = <<>>)
        /\ input.callback_id \in {"list_app_confirmation", "rollback_revisions", "logs_app"}
             => \A i \in 1..Len(argo) : ~Mutating(argo[i])
        /\ (input.callback_id = "rollback_app" /\ argo # <<>>) =>
             (argo[1].op = "rollback" /\ calls[1].fn = "rollback_application")
        /\ (input.callback_id \in {"sync_app", "logs_app", "list_app_confirmation"})
             => Len(argo) <= 1
        /\ (input.callback_id = "rollback_revisions" /\ argo # <<>>) =>
             argo[1].op = "application"
C26_Witness ==
    /\ ConfirmedCallback({"rollback_revisions"})
    /\ Len(argo) = 2 /\ argo[2].op = "appdetails"
    /\ Len(url) = 1 /\ url[1].kind = "revisions_table"

\* C27: the mention entry point never contacts the deployment controller;
\* every deployment-controller request of a handler is made while handling an
\* interactive callback whose action value is "yes", so no sync and no
\* rollback happens without a confirmation click.
C27_RequestsOnlyOnYes ==
    /\ handler = "handle_mentions" => (argo = <<>> /\ calls = <<>>)
    /\ (handler = "handle_interactions" /\ argo # <<>>) =>
         (CompleteCallback("yes") /\ DeniedReplies = <<>>)
C27_Witness ==
    /\ CompleteCallback("yes")
    /\ prompt # NoPrompt
    /\ \E i \in 1..Len(argo) : Mutating(argo[i]) /\ argo[i].resp = 200

SuccessfulWrite(r) == r.method \in {"PATCH", "PUT"} /\ r.resp = 200

\* C28: rollback never restores auto-sync: when disable_auto_sync made a
\* successful write, that write carries no syncPolicy.automated and the only
\* request after it is the retry POST, which carries no sync policy, so the
\* application is left with auto-sync disabled when the retry succeeds ("ok")
\* and when it fails ("error"); the handler reports the latter as the generic
\* rollback failure.
C28_AutoSyncNotRestored ==
    /\ handler = "rollback_application" =>
         \A i \in 1..Len(argo) : SuccessfulWrite(argo[i]) =>
             /\ argo[i].payload.syncPolicy.automated = Absent
             /\ i = Len(argo) - 1
             /\ argo[Len(argo)].method = "POST" /\ argo[Len(argo)].op = "rollback"
             /\ argo[Len(argo)].payload.kind = "rollback"
             /\ result \in {"ok", "error"}
             /\ result = "ok" <=> argo[Len(argo)].resp = 200
    /\ (RollbackCalled /\ \E i \in 1..Len(argo) : SuccessfulWrite(argo[i])) =>
         /\ ~Mutating(argo[Len(argo)]) \/ argo[Len(argo)].op = "rollback"
         /\ RollbackStatus = "error" => url[1].kind = "rollback_failed"
         /\ RollbackStatus = "ok" => url[1].kind = "rollback_ok"
C28_Witness ==
    /\ handler = "rollback_application"
    /\ result = "error"
    /\ \E i \in 1..Len(argo) : SuccessfulWrite(argo[i]) /\ argo[i].method = "PUT"

FailureTexts == SelectSeq(url, LAMBDA r : r.kind \in {"list_failed", "logs_failed"})

\* C29: for a "yes" callback of kind list_app_confirmation or logs_app the
\* failure text is sent only when the controller call failed (an answer other
\* than 200, or a transport failure); a 200 answer with an empty application
\* list or an empty log body is not reported as a failure.
C29_FailureTextOnlyOnFailure ==
    (ConfirmedCallback({"list_app_confirmation", "logs_app"}) /\ FailureTexts # <<>>) =>
        (argo # <<>> /\ argo[1].resp # 200)

RepliesExpected ==
    /\ handler = "handle_interactions"
    /\ input.parses
    /\ input.callback_id \in CallbackKinds
    /\ ~Falsy(input.response_url)
    /\ \/ ActionValue(input) = "no"
       \/ ActionValue(input) = "yes" /\ is_user_authorized(input.user_id)

\* C30: every interactive callback with complete required fields, action
\* value "yes" or "no", one of the five callback kinds and, for "yes", an
\* authorized user makes at least one post to the response URL before the
\* handler returns, whatever the controller answers and whether or not the
\* tokens are recovered.
C30_AlwaysReplies ==
    RepliesExpected => url # <<>>

\* get_appdetails_for_revision was called with a history entry that has a
\* source
SourceSupplied ==
    /\ input.history_item.supplied
    /\ input.history_item.source.kind = "dict"
ExpectedSource == IF SourceSupplied THEN input.history_item.source ELSE input.app.source
RepositoryKnown == ExpectedSource.kind = "dict" /\ ExpectedSource.repoURL # <<>>

\* C31: get_appdetails_for_revision uses the source recorded in the history
\* item (repoURL, path, helm value files) when a history item with a source is
\* supplied and the current source of the application otherwise, always sends
\* the given revision hash as targetRevision, and returns None without any
\* request when no repository URL can be determined.
C31_AppDetailsSource ==
    handler = "get_appdetails_for_revision" =>
        /\ ~RepositoryKnown => (argo = <<>> /\ result = None)
        /\ RepositoryKnown =>
             /\ Len(argo) = 1
             /\ argo[1].method = "POST" /\ argo[1].op = "appdetails"
             /\ argo[1].payload.repoURL = ExpectedSource.repoURL
             /\ argo[1].payload.path = ExpectedSource.path
             /\ argo[1].payload.valueFiles = ExpectedSource.valueFiles
             /\ argo[1].payload.targetRevision = input.revision_hash
             /\ argo[1].payload.versionId = input.revision_id
             /\ result # None => argo[1].resp = 200
C31_Witness ==
    /\ handler = "get_appdetails_for_revision"
    /\ SourceSupplied
    /\ input.app.source.kind = "dict"
    /\ input.history_item.source.repoURL = RepoB /\ input.app.source.repoURL = RepoA
    /\ input.history_item.source.path # input.app.source.path
    /\ argo # <<>> /\ argo[1].payload.repoURL = RepoB
    /\ argo[1].payload.endpoint = <<"https", "%3A", "%2F", "%2F", "git", "%2F", "b">>
    /\ result = "details"

====
